---------------------------- MODULE Spec2Model ----------------------------
(***************************************************************************)
(* A model of the financial advisor agent (src/agents/advisor_agent.py),   *)
(* the POST /chat endpoint that serves it (src/app/main.py), its response  *)
(* schema (src/app/schemas/chat.py) and the portfolio schema               *)
(* (src/app/schemas/portfolio.py).                                         *)
(*                                                                         *)
(* Text.  A Python str is a sequence of fragments whose concatenation is   *)
(* the string.  Every text the code analyses (messages, session ids,       *)
(* tickers, keywords, citations, the disclaimer) is kept at one character  *)
(* per fragment; the fixed bodies of the response templates are kept as    *)
(* one fragment each, since the code only ever concatenates them.          *)
(*                                                                         *)
(* Optional[X].  None is the empty tuple and a present value x is <<x>>.   *)
(***************************************************************************)
EXTENDS Naturals, Sequences, FiniteSets

VARIABLES
    sessions,   \* FinancialAdvisorAgent.sessions: dict[str, list[dict]]
    clock,      \* number of datetime.utcnow() reads made so far
    calls,      \* history: what each completed call read and what it returned
    reply,      \* Optional: the HTTP reply to the last POST /chat
    fnInput,    \* the arguments of the pure function under check
    fnOutput,   \* Optional: the value that function returned
    threads,    \* the process_message calls running concurrently: locals and position
    agents      \* which FinancialAdvisorAgent is in use, and what each call met

vars == <<sessions, clock, calls, reply, fnInput, fnOutput, threads, agents>>

None == <<>>
Some(x) == <<x>>

(***************************************************************************)
(* Bounds of the model.                                                    *)
(***************************************************************************)
MaxKeywordPieces == 3  \* pieces of a text given to the intent classifier
MaxTickerPieces == 4   \* pieces of a text given to the ticker extractor
MaxMsgPieces == 2      \* pieces of a message given to the template engine
MaxCalls == 3          \* requests handled in one run of the service

(***************************************************************************)
(* Characters and the str methods the code uses.                           *)
(***************************************************************************)
UpperLetters == <<"A","B","C","D","E","F","G","H","I","J","K","L","M","N","O","P","Q","R","S","T","U","V","W","X","Y","Z">>
LowerLetters == <<"a","b","c","d","e","f","g","h","i","j","k","l","m","n","o","p","q","r","s","t","u","v","w","x","y","z">>
UpperSet == {UpperLetters[i] : i \in 1..26}
LowerSet == {LowerLetters[i] : i \in 1..26}
DigitSet == {"0","1","2","3","4","5","6","7","8","9"}

LowerMap == [c \in UpperSet |-> LowerLetters[CHOOSE i \in 1..26 : UpperLetters[i] = c]]
UpperMap == [c \in LowerSet |-> UpperLetters[CHOOSE i \in 1..26 : LowerLetters[i] = c]]

\* str.lower(): every upper-case letter becomes its lower-case letter.
lower(s) == [i \in 1..Len(s) |-> IF s[i] \in UpperSet THEN LowerMap[s[i]] ELSE s[i]]

\* str.upper()
upper(s) == [i \in 1..Len(s) |-> IF s[i] \in LowerSet THEN UpperMap[s[i]] ELSE s[i]]

\* Python's `sub in s` on two strings.
Contains(sub, s) ==
    \E i \in 0..(Len(s) - Len(sub)) : SubSeq(s, i + 1, i + Len(sub)) = sub

RECURSIVE Join(_, _)
\* sep.join(parts)
Join(sep, parts) ==
    IF parts = <<>> THEN <<>>
    ELSE IF Len(parts) = 1 THEN parts[1]
    ELSE parts[1] \o sep \o Join(sep, Tail(parts))

(***************************************************************************)
(* _detect_analysis_type                                                   *)
(***************************************************************************)
BullBearWords == << <<"b","u","l","l">>, <<"b","e","a","r">>, <<"c","a","s","e">> >>
EarningsWords == << <<"e","a","r","n","i","n","g","s">>, <<"r","e","p","o","r","t">> >>
ComparisonWords == << <<"c","o","m","p","a","r","e">>, <<"c","o","m","p","a","r","i","s","o","n">>, <<"v","e","r","s","u","s">>, <<"v","s">> >>
RiskWords == << <<"r","i","s","k">>, <<"v","o","l","a","t","i","l","i","t","y">>, <<"d","o","w","n","s","i","d","e">> >>

\* any(word in text for word in words)
AnyWordIn(words, text) == \E k \in 1..Len(words) : Contains(words[k], text)

\* faulty variant: the keywords are looked up in the text as written
_detect_analysis_type_cased(message) ==
    IF AnyWordIn(BullBearWords, message) THEN "bull_bear"
    ELSE IF AnyWordIn(EarningsWords, message) THEN "earnings"
    ELSE IF AnyWordIn(ComparisonWords, message) THEN "comparison"
    ELSE IF AnyWordIn(RiskWords, message) THEN "risk"
    ELSE "general"

_detect_analysis_type(message) ==
    LET message_lower == lower(message) IN
    IF AnyWordIn(BullBearWords, message_lower) THEN "bull_bear"
    ELSE IF AnyWordIn(EarningsWords, message_lower) THEN "earnings"
    ELSE IF AnyWordIn(ComparisonWords, message_lower) THEN "comparison"
    ELSE IF AnyWordIn(RiskWords, message_lower) THEN "risk"
    ELSE "general"

(***************************************************************************)
(* _extract_ticker: re.findall(r"\b[A-Z]{1,5}\b", message), the exclusion  *)
(* filter and the first survivor.                                          *)
(***************************************************************************)
MinTickerLen == 1
MaxTickerLen == 5

\* \w of a str pattern, on the characters of the model
IsWordChar(c) == c \in UpperSet \/ c \in LowerSet \/ c \in DigitSet \/ c = "_"

\* \b at the position that has p characters to its left
AtWordBoundary(s, p) ==
    LET before == p > 0 /\ IsWordChar(s[p])
        after == p < Len(s) /\ IsWordChar(s[p + 1])
    IN before # after

RECURSIVE MatchAtNoEndBoundary(_, _, _)
\* faulty variant: the pattern lacks its closing \b
MatchAtNoEndBoundary(s, p, k) ==
    IF k < MinTickerLen THEN 0
    ELSE IF /\ p + k <= Len(s)
            /\ \A i \in (p + 1)..(p + k) : s[i] \in UpperSet
         THEN k
    ELSE MatchAtNoEndBoundary(s, p, k - 1)

RECURSIVE MatchAt(_, _, _)
\* [A-Z]{1,5}\b at p, greedy: k letters are tried, then k - 1, down to the
\* minimum; the length matched, or 0 when the pattern does not match at p.
MatchAt(s, p, k) ==
    IF k < MinTickerLen THEN 0
    ELSE IF /\ p + k <= Len(s)
            /\ \A i \in (p + 1)..(p + k) : s[i] \in UpperSet
            /\ AtWordBoundary(s, p + k)
         THEN k
    ELSE MatchAt(s, p, k - 1)

RECURSIVE findall(_, _)
\* re.findall: the non-overlapping matches, scanning from p left to right
findall(s, p) ==
    IF p >= Len(s) THEN <<>>
    ELSE LET k == IF AtWordBoundary(s, p) THEN MatchAt(s, p, MaxTickerLen) ELSE 0 IN
         IF k > 0 THEN <<SubSeq(s, p + 1, p + k)>> \o findall(s, p + k)
         ELSE findall(s, p + 1)

excluded == { <<"I">>, <<"A">>, <<"M","Y">>, <<"T","H","E">>, <<"F","O","R">>,
              <<"A","N","D">>, <<"O","R">> }

\* faulty variant: no match is dropped
FilterNothing(matches) == matches

\* [m for m in matches if m not in excluded]
FilterExcluded(matches) == SelectSeq(matches, LAMBDA m : m \notin excluded)

\* tickers[0] if tickers else None
FirstOrNone(tickers) == IF tickers # <<>> THEN Some(tickers[1]) ELSE None

_extract_ticker(message) ==
    LET matches == findall(message, 0)
        tickers == FilterExcluded(matches)
    IN FirstOrNone(tickers)

(***************************************************************************)
(* The response templates.                                                 *)
(***************************************************************************)
\* `x or default` on an Optional[str]: None and "" are both falsy
OrElse(x, default) == IF x # None /\ x[1] # <<>> THEN x[1] ELSE default

ThisStock == <<"t","h","i","s"," ","s","t","o","c","k">>
YourHoldings == <<"y","o","u","r"," ","h","o","l","d","i","n","g","s">>
YourPortfolio == <<"y","o","u","r"," ","p","o","r","t","f","o","l","i","o">>

BullCaseHead == <<"*","*","B","u","l","l"," ","C","a","s","e"," ","f","o","r"," ">>
BullCaseBody == <<"**\n\n**Strengths:**\n- Strong revenue growth trajectory (mock: +15% YoY)\n- Expanding profit margins (mock: 25% -> 28%)\n- Market leadership in key segments\n- Robust balance sheet with low debt\n\n**Catalysts:**\n- New product launches expected in Q2\n- Expanding into high-growth markets\n- Operational efficiency improvements\n\n**Valuation:**\n- Trading at reasonable P/E relative to growth (mock: 22x vs sector 25x)\n- Free cash flow generation supports current valuation\n\nNote: This is a mock analysis. Real data integration pending.">>

_mock_bull_case(ticker) ==
    LET ticker_display == OrElse(ticker, ThisStock)
    IN BullCaseHead \o upper(ticker_display) \o BullCaseBody

BearCaseHead == <<"*","*","B","e","a","r"," ","C","a","s","e"," ","f","o","r"," ">>
BearCaseBody == <<"**\n\n**Risks:**\n- Increasing competition in core markets\n- Potential margin compression (mock: concerns about input costs)\n- High valuation relative to historical averages\n- Regulatory headwinds in key jurisdictions\n\n**Concerns:**\n- Customer concentration risk (top 3 customers = 40% revenue)\n- Execution risk on new initiatives\n- Macroeconomic sensitivity\n\n**Valuation:**\n- Premium valuation leaves little room for disappointment\n- Multiple expansion may reverse in downturn\n\nNote: This is a mock analysis. Real data integration pending.">>

_mock_bear_case(ticker) ==
    LET ticker_display == OrElse(ticker, ThisStock)
    IN BearCaseHead \o upper(ticker_display) \o BearCaseBody

BalancedHead == <<"*","*","A","n","a","l","y","s","i","s"," ","f","o","r"," ">>
BalancedBody == <<"**\n\n**Bull Factors:**\n- Revenue growth momentum\n- Strong competitive position\n- Margin expansion potential\n\n**Bear Factors:**\n- Valuation concerns\n- Market competition intensifying\n- Execution risks on growth plans\n\n**Recommendation:**\nMonitor upcoming earnings and sector trends. Consider position sizing relative to overall portfolio risk.\n\nNote: This is a mock analysis. Real data integration pending.">>

_mock_balanced_view(ticker) ==
    LET ticker_display == OrElse(ticker, ThisStock)
    IN BalancedHead \o upper(ticker_display) \o BalancedBody

EarningsHead == <<"H","e","r","e","'","s"," ","a","n"," ","e","a","r","n","i","n","g","s"," ","a","n","a","l","y","s","i","s"," ","f","o","r"," ">>
EarningsBody == <<":\n\nMock earnings data will be displayed here with YoY comparisons and surprises.">>
RiskHead == <<"R","i","s","k"," ","a","n","a","l","y","s","i","s"," ","f","o","r"," ">>
RiskBody == <<":\n\nMock risk metrics including volatility, concentration, and diversification scores.">>

HelpHead == <<"I'm here to help with your investment research.">>
HelpTail == <<" You can ask me about bull/bear cases, earnings analysis, stock comparisons, or risk assessments.">>
HoldHead == <<" ","I"," ","c","a","n"," ","s","e","e"," ","y","o","u"," ","h","o","l","d"," ">>
HoldTail == <<".">>
CommaSpace == <<","," ">>

ContextHoldings == 3

\* faulty variant: every holding is listed
FirstHoldingsAll(holdings) == holdings

\* portfolio.holdings[:3]
FirstHoldings(holdings) ==
    SubSeq(holdings, 1, IF Len(holdings) < ContextHoldings THEN Len(holdings) ELSE ContextHoldings)

\* the else branch of _generate_mock_response
PortfolioContext(portfolio) ==
    IF portfolio # None /\ portfolio[1].holdings # <<>>
    THEN LET first == FirstHoldings(portfolio[1].holdings)
             tickers == [i \in 1..Len(first) |-> first[i].ticker]
         IN HoldHead \o Join(CommaSpace, tickers) \o HoldTail
    ELSE <<>>

\* faulty variant: the portfolio clause alone
GeneralHelpContextOnly(portfolio) == PortfolioContext(portfolio)

GeneralHelp(portfolio) == HelpHead \o PortfolioContext(portfolio) \o HelpTail

\* faulty variant: without a ticker, earnings and risk name the first holding
_generate_mock_response_first_holding(message, analysis_type, portfolio) ==
    LET ticker == _extract_ticker(message)
        held == IF portfolio # None /\ portfolio[1].holdings # <<>>
                THEN Some(portfolio[1].holdings[1].ticker) ELSE None
    IN
    IF analysis_type = "bull_bear"
    THEN IF Contains(<<"b","u","l","l">>, lower(message)) THEN _mock_bull_case(ticker)
         ELSE IF Contains(<<"b","e","a","r">>, lower(message)) THEN _mock_bear_case(ticker)
         ELSE _mock_balanced_view(ticker)
    ELSE IF analysis_type = "earnings"
    THEN EarningsHead \o OrElse(ticker, OrElse(held, YourHoldings)) \o EarningsBody
    ELSE IF analysis_type = "risk"
    THEN RiskHead \o OrElse(ticker, OrElse(held, YourPortfolio)) \o RiskBody
    ELSE GeneralHelp(portfolio)

\* faulty variant: "bear" is looked for before "bull"
_generate_mock_response_bear_first(message, analysis_type, portfolio) ==
    LET ticker == _extract_ticker(message) IN
    IF analysis_type = "bull_bear"
    THEN IF Contains(<<"b","e","a","r">>, lower(message)) THEN _mock_bear_case(ticker)
         ELSE IF Contains(<<"b","u","l","l">>, lower(message)) THEN _mock_bull_case(ticker)
         ELSE _mock_balanced_view(ticker)
    ELSE IF analysis_type = "earnings"
    THEN EarningsHead \o OrElse(ticker, YourHoldings) \o EarningsBody
    ELSE IF analysis_type = "risk"
    THEN RiskHead \o OrElse(ticker, YourPortfolio) \o RiskBody
    ELSE GeneralHelp(portfolio)

_generate_mock_response(message, analysis_type, portfolio) ==
    LET ticker == _extract_ticker(message) IN
    IF analysis_type = "bull_bear"
    THEN IF Contains(<<"b","u","l","l">>, lower(message)) THEN _mock_bull_case(ticker)
         ELSE IF Contains(<<"b","e","a","r">>, lower(message)) THEN _mock_bear_case(ticker)
         ELSE _mock_balanced_view(ticker)
    ELSE IF analysis_type = "earnings"
    THEN EarningsHead \o OrElse(ticker, YourHoldings) \o EarningsBody
    ELSE IF analysis_type = "risk"
    THEN RiskHead \o OrElse(ticker, YourPortfolio) \o RiskBody
    ELSE GeneralHelp(portfolio)

(***************************************************************************)
(* _generate_mock_citations                                                *)
(***************************************************************************)
BullBearCitations == <<
    <<"P","/","E"," ","R","a","t","i","o",":"," ","2","2",".","5"," ","(","m","o","c","k"," ","d","a","t","a",")">>,
    <<"R","e","v","e","n","u","e"," ","G","r","o","w","t","h"," ","Y","o","Y",":"," ","+","1","5","%"," ","(","m","o","c","k"," ","d","a","t","a",")">>,
    <<"P","r","o","f","i","t"," ","M","a","r","g","i","n",":"," ","2","8","%"," ","(","m","o","c","k"," ","d","a","t","a",")">> >>
EarningsCitations == <<
    <<"Q","3"," ","E","P","S",":"," ","$","2",".","4","5"," ","v","s"," ","e","s","t","."," ","$","2",".","3","0"," ","(","m","o","c","k"," ","d","a","t","a",")">>,
    <<"R","e","v","e","n","u","e",":"," ","$","1","2",".","5","B"," ","v","s"," ","e","s","t","."," ","$","1","2",".","1","B"," ","(","m","o","c","k"," ","d","a","t","a",")">> >>
RiskCitations == <<
    <<"3","0","-","d","a","y"," ","v","o","l","a","t","i","l","i","t","y",":"," ","1","8","%"," ","(","m","o","c","k"," ","d","a","t","a",")">>,
    <<"B","e","t","a",":"," ","1",".","1","5"," ","(","m","o","c","k"," ","d","a","t","a",")">>,
    <<"M","a","x"," ","d","r","a","w","d","o","w","n"," ","(","1","Y",")",":"," ","-","2","2","%"," ","(","m","o","c","k"," ","d","a","t","a",")">> >>

\* faulty variant: the remaining categories are given the risk citations
_generate_mock_citations_always(analysis_type, portfolio) ==
    IF analysis_type = "bull_bear" THEN BullBearCitations
    ELSE IF analysis_type = "earnings" THEN EarningsCitations
    ELSE RiskCitations

_generate_mock_citations(analysis_type, portfolio) ==
    IF analysis_type = "bull_bear" THEN BullBearCitations
    ELSE IF analysis_type = "earnings" THEN EarningsCitations
    ELSE IF analysis_type = "risk" THEN RiskCitations
    ELSE <<>>

(***************************************************************************)
(* ChatResponse (app/schemas/chat.py) as process_message constructs it:    *)
(* the disclaimer is not passed and takes the schema's default.            *)
(***************************************************************************)
DefaultDisclaimer == <<"T","h","i","s"," ","i","s"," ","n","o","t"," ","f","i","n","a","n","c","i","a","l"," ","a","d","v","i","c","e","."," ","A","l","l"," ","a","n","a","l","y","s","i","s"," ","i","s"," ","f","o","r"," ","i","n","f","o","r","m","a","t","i","o","n","a","l"," ","p","u","r","p","o","s","e","s"," ","o","n","l","y",".">>

\* faulty variant: the disclaimer is blank
ChatResponseBlankDisclaimer(message, session_id, timestamp, analysis_type, confidence, citations) ==
    [ message |-> message,
      session_id |-> session_id,
      timestamp |-> timestamp,
      analysis_type |-> analysis_type,
      confidence |-> confidence,
      citations |-> citations,
      disclaimer |-> <<>> ]

ChatResponse(message, session_id, timestamp, analysis_type, confidence, citations) ==
    [ message |-> message,
      session_id |-> session_id,
      timestamp |-> timestamp,
      analysis_type |-> analysis_type,
      confidence |-> confidence,
      citations |-> citations,
      disclaimer |-> DefaultDisclaimer ]

(***************************************************************************)
(* Session identifiers and the session store.                              *)
(***************************************************************************)
UuidHexLen == 32
SessionSuffixLen == 8
SessionPrefix == <<"s","e","s","s","i","o","n","-">>

\* faulty variant: the last eight hex digits, hex[-8:]
GenerateSessionIdLast8(hex) ==
    SessionPrefix \o SubSeq(hex, UuidHexLen - SessionSuffixLen + 1, UuidHexLen)

\* f"session-{uuid.uuid4().hex[:8]}", hex being the value of uuid.uuid4().hex
GenerateSessionId(hex) == SessionPrefix \o SubSeq(hex, 1, SessionSuffixLen)

\* `not session_id` on an Optional[str]: true of None and of ""
NotSessionId(session_id) == session_id = None \/ session_id[1] = <<>>

\* faulty variant: `if session_id is None`, which keeps ""
ResolveSessionIdIfNone(session_id, hex) ==
    IF session_id = None THEN GenerateSessionId(hex[1]) ELSE session_id[1]

\* faulty variant: the identifier generated is the bare suffix, uuid4().hex[:8]
ResolveSessionIdBare(session_id, hex) ==
    IF NotSessionId(session_id) THEN SubSeq(hex[1], 1, SessionSuffixLen) ELSE session_id[1]

\* if not session_id: session_id = f"session-..."
ResolveSessionId(session_id, hex) ==
    IF NotSessionId(session_id) THEN GenerateSessionId(hex[1]) ELSE session_id[1]

\* faulty variant: the log is emptied on every call
EnsureSessionReset(store, sid) ==
    [k \in DOMAIN store \cup {sid} |-> IF k = sid THEN <<>> ELSE store[k]]

\* faulty variant: an unseen identifier starts a new store, `self.sessions = {session_id: []}`
EnsureSessionNewStore(store, sid) ==
    IF sid \notin DOMAIN store THEN [k \in {sid} |-> <<>>] ELSE store

\* if session_id not in self.sessions: self.sessions[session_id] = []
EnsureSession(store, sid) ==
    IF sid \notin DOMAIN store
    THEN [k \in DOMAIN store \cup {sid} |-> IF k = sid THEN <<>> ELSE store[k]]
    ELSE store

\* faulty variant: the lower-cased text is stored
TurnLowered(role, content, timestamp) ==
    [role |-> role, content |-> lower(content), timestamp |-> timestamp]

Turn(role, content, timestamp) ==
    [role |-> role, content |-> content, timestamp |-> timestamp]

\* faulty variant: the log is assigned the turn, `= [turn]`
AppendTurnOverwrite(store, sid, turn) == [store EXCEPT ![sid] = <<turn>>]

\* faulty variant: the turn is put in front
AppendTurnFront(store, sid, turn) == [store EXCEPT ![sid] = <<turn>> \o @]

\* self.sessions[session_id].append(turn)
AppendTurn(store, sid, turn) == [store EXCEPT ![sid] = Append(@, turn)]

\* faulty variant: the citations are not those of the category detected
AnalyseGeneralCitations(message, portfolio) ==
    LET analysis_type == _detect_analysis_type(message) IN
    [ analysis_type |-> analysis_type,
      response_message |-> _generate_mock_response(message, analysis_type, portfolio),
      citations |-> _generate_mock_citations("general", portfolio) ]

\* faulty variant: the message is analysed only in an agent's first conversation
AnalyseFirstConversation(message, portfolio) ==
    LET analysis_type ==
            IF DOMAIN sessions = {} THEN _detect_analysis_type(message) ELSE "general" IN
    [ analysis_type |-> analysis_type,
      response_message |-> _generate_mock_response(message, analysis_type, portfolio),
      citations |-> _generate_mock_citations(analysis_type, portfolio) ]

\* the category, the response text and the citations of a message
Analyse(message, portfolio) ==
    LET analysis_type == _detect_analysis_type(message) IN
    [ analysis_type |-> analysis_type,
      response_message |-> _generate_mock_response(message, analysis_type, portfolio),
      citations |-> _generate_mock_citations(analysis_type, portfolio) ]

(***************************************************************************)
(* process_message, run as one step: the calls of one agent are made one   *)
(* at a time.  hex is Some(h) when uuid.uuid4() is called and h is its     *)
(* .hex, and None when it is not called; the three timestamps are the      *)
(* ordinals of the clock reads.                                            *)
(***************************************************************************)
process_message(message, session_id, user_id, portfolio, hex) ==
    LET sid == ResolveSessionId(session_id, hex)
        created == EnsureSession(sessions, sid)
        withUser == AppendTurn(created, sid, Turn("user", message, clock))
        a == Analyse(message, portfolio)
        withAssistant ==
            AppendTurn(withUser, sid, Turn("assistant", a.response_message, clock + 1))
        response ==
            ChatResponse(a.response_message, sid, clock + 2, a.analysis_type,
                         "medium", a.citations)
    IN /\ (hex # None) = NotSessionId(session_id)
       /\ sessions' = withAssistant
       /\ clock' = clock + 3
       /\ calls' = Append(calls,
              [ message |-> message,
                session_id |-> session_id,
                portfolio |-> portfolio,
                hex |-> hex,
                response |-> response ])

(***************************************************************************)
(* POST /chat (app/main.py).  A body is valid for ChatRequest when it is   *)
(* JSON and holds a message; session_id and user_id default to None.  An   *)
(* invalid body is answered 422 before chat() runs.                        *)
(***************************************************************************)
ValidChatRequest(body) == body.json /\ body.message # None

\* faulty variant: the body is validated after the agent has been called
chatThenValidate(body, hex) ==
    /\ process_message(IF body.message # None THEN body.message[1] ELSE <<>>,
                       body.session_id, body.user_id, None, hex)
    /\ reply' = IF ValidChatRequest(body)
                THEN Some([status |-> 200, body |-> Some(calls'[Len(calls')].response)])
                ELSE Some([status |-> 422, body |-> None])
    /\ UNCHANGED <<fnInput, fnOutput, threads, agents>>

chat(body, hex) ==
    /\ ValidChatRequest(body)
    /\ process_message(body.message[1], body.session_id, body.user_id, None, hex)
    /\ reply' = Some([status |-> 200, body |-> Some(calls'[Len(calls')].response)])
    /\ UNCHANGED <<fnInput, fnOutput, threads, agents>>

RejectRequest(body) ==
    /\ ~ValidChatRequest(body)
    /\ reply' = Some([status |-> 422, body |-> None])
    /\ UNCHANGED <<sessions, clock, calls, fnInput, fnOutput, threads, agents>>

(***************************************************************************)
(* Inputs.                                                                 *)
(***************************************************************************)
Space == <<" ">>
AAPL == <<"A","A","P","L">>
MSFT == <<"M","S","F","T">>
GOOGL == <<"G","O","O","G","L">>
BEAR == <<"B","E","A","R">>

Range(seq) == { seq[k] : k \in 1..Len(seq) }

KeywordPieces ==
    Range(BullBearWords) \cup Range(EarningsWords) \cup Range(ComparisonWords)
    \cup Range(RiskWords) \cup { BEAR, Space, <<"x">> }

TickerPieces ==
    { AAPL, MSFT, <<"I">>, <<"F","O","R">>, Space, <<"_">>, <<"1">>, <<"x">> }

MessagePieces ==
    { BullBearWords[1], BullBearWords[2], BullBearWords[3], EarningsWords[1],
      ComparisonWords[4], RiskWords[1], BEAR,
      Space \o AAPL, Space \o <<"I">>, Space \o <<"x">> }

RECURSIVE TextsOf(_, _)
\* the texts made of at most n of the pieces
TextsOf(pieces, n) ==
    IF n = 0 THEN { <<>> }
    ELSE LET shorter == TextsOf(pieces, n - 1)
         IN shorter \cup { t \o p : t \in shorter, p \in pieces }

KeywordTexts == TextsOf(KeywordPieces, MaxKeywordPieces)
TickerTexts == TextsOf(TickerPieces, MaxTickerPieces)
MessageTexts == TextsOf(MessagePieces, MaxMsgPieces)
Messages == { <<>>, BullBearWords[1] \o Space \o AAPL }

Holding(ticker) ==
    [ticker |-> ticker, shares |-> 100, cost_basis |-> 150, purchase_date |-> None]

Portfolio(holdings) ==
    [user_id |-> <<"u","1">>, holdings |-> holdings,
     total_value |-> None, last_updated |-> None]

Portfolios ==
    { None,
      Some(Portfolio(<<>>)),
      Some(Portfolio(<<Holding(AAPL), Holding(<<"m","s","f","t">>)>>)),
      Some(Portfolio(<<Holding(AAPL), Holding(MSFT), Holding(GOOGL), Holding(<<"T">>)>>)) }

UserIds == { None, Some(<<"u","1">>) }

HexDigits == {"0", "f"}

\* values of uuid.uuid4().hex: two of them differ only after the eighth digit
UuidDraws ==
    { [i \in 1..UuidHexLen |-> IF i = 1 THEN a ELSE IF i = UuidHexLen THEN b ELSE "0"] :
        a \in HexDigits, b \in HexDigits }
    \ { [i \in 1..UuidHexLen |-> IF i = 1 \/ i = UuidHexLen THEN "f" ELSE "0"] }

HexChoices == { None } \cup { Some(h) : h \in UuidDraws }

SessionIdArgs ==
    { None,
      Some(<<>>),
      Some(<<"s","1">>),
      Some(SessionPrefix \o <<"0","0","0","0","0","0","0","0">>) }

\* request bodies: not JSON, JSON without a message, and the valid ones
Bodies ==
    { [json |-> FALSE, message |-> None, session_id |-> None, user_id |-> None] }
    \cup { [json |-> TRUE, message |-> m, session_id |-> s, user_id |-> u] :
             m \in { None } \cup { Some(t) : t \in Messages },
             s \in SessionIdArgs, u \in UserIds }

AnalysisTypes == {"bull_bear", "earnings", "comparison", "risk", "general"}

(***************************************************************************)
(* The service: the agent is constructed (__init__), then requests are     *)
(* handled one at a time.                                                  *)
(***************************************************************************)
NoSessions == [k \in {} |-> <<>>]
NoThreads == <<>>
\* one agent, advisor_agent = FinancialAdvisorAgent(), and no call made yet
OneAgent == [current |-> 1, audit |-> <<>>]
Idle == [fn |-> "none", message |-> <<>>, analysis_type |-> "general", portfolio |-> None]

Init ==
    /\ sessions = NoSessions
    /\ clock = 0
    /\ calls = <<>>
    /\ reply = None
    /\ fnInput = Idle
    /\ fnOutput = None
    /\ threads = NoThreads
    /\ agents = OneAgent

Next ==
    /\ Len(calls) < MaxCalls
    /\ \E body \in Bodies :
          \/ \E hex \in HexChoices : chat(body, hex)
          \/ RejectRequest(body)

Spec == Init /\ [][Next]_vars

(***************************************************************************)
(* One direct call to a freshly constructed agent, over every message,     *)
(* session_id, user_id and portfolio.                                      *)
(***************************************************************************)
NextFirst ==
    /\ calls = <<>>
    /\ \E message \in MessageTexts, session_id \in SessionIdArgs, user_id \in UserIds,
          portfolio \in Portfolios, hex \in HexChoices :
            process_message(message, session_id, user_id, portfolio, hex)
    /\ UNCHANGED <<reply, fnInput, fnOutput, threads, agents>>

SpecFirst == Init /\ [][NextFirst]_vars

(***************************************************************************)
(* The pure functions, each applied to an input drawn by InitFn.           *)
(***************************************************************************)
FnInput(fn, message, analysis_type, portfolio) ==
    [fn |-> fn, message |-> message, analysis_type |-> analysis_type,
     portfolio |-> portfolio]

DetectInputs ==
    { FnInput("_detect_analysis_type", t, "general", None) : t \in KeywordTexts }

ExtractInputs ==
    { FnInput("_extract_ticker", t, "general", None) : t \in TickerTexts }

FindallInputs ==
    { FnInput("re.findall", t, "general", None) : t \in TickerTexts }

CitationInputs ==
    { FnInput("_generate_mock_citations", <<>>, a, p) :
        a \in AnalysisTypes, p \in Portfolios }

ResponseInputs ==
    { FnInput("_generate_mock_response", t, a, p) :
        t \in MessageTexts, a \in AnalysisTypes, p \in Portfolios }

InitFn ==
    /\ sessions = NoSessions
    /\ clock = 0
    /\ calls = <<>>
    /\ reply = None
    /\ \/ fnInput \in DetectInputs
       \/ fnInput \in ExtractInputs
       \/ fnInput \in FindallInputs
       \/ fnInput \in CitationInputs
       \/ fnInput \in ResponseInputs
    /\ fnOutput = None
    /\ threads = NoThreads
    /\ agents = OneAgent

Apply(fn, value) ==
    /\ fnInput.fn = fn
    /\ fnOutput = None
    /\ fnOutput' = Some(value)
    /\ UNCHANGED <<sessions, clock, calls, reply, fnInput, threads, agents>>

DetectAnalysisType ==
    Apply("_detect_analysis_type", _detect_analysis_type(fnInput.message))

ExtractTicker ==
    Apply("_extract_ticker", _extract_ticker(fnInput.message))

\* matches = re.findall(pattern, message)
FindAll ==
    Apply("re.findall", findall(fnInput.message, 0))

GenerateMockCitations ==
    Apply("_generate_mock_citations",
          _generate_mock_citations(fnInput.analysis_type, fnInput.portfolio))

GenerateMockResponse ==
    Apply("_generate_mock_response",
          _generate_mock_response(fnInput.message, fnInput.analysis_type,
                                  fnInput.portfolio))

NextFn ==
    \/ DetectAnalysisType
    \/ ExtractTicker
    \/ FindAll
    \/ GenerateMockCitations
    \/ GenerateMockResponse

SpecFn == InitFn /\ [][NextFn]_vars

(***************************************************************************)
(* Concurrent calls.  chat() is a plain `def` endpoint, so the framework    *)
(* runs requests on worker threads and two calls of process_message on the *)
(* one advisor_agent can overlap.  A dict or list operation is one step    *)
(* (the interpreter lock makes it atomic); a thread can be preempted       *)
(* between any two of them, also between reading self.sessions[session_id] *)
(* and calling .append on the list read.  A list that `self.sessions[k] =  *)
(* []` has replaced is no longer in the store: a thread that still holds   *)
(* it appends to a list nobody reads (ref = "orphan"; stale notes that the  *)
(* thread has done so).                                                    *)
(***************************************************************************)
Threads == {"t1", "t2"}

ConcSessionIds == { None, Some(<<"s","1">>) }

ThreadStart(message, session_id, hex) ==
    [ pc |-> "resolve", message |-> message, session_id |-> session_id, hex |-> hex,
      sid |-> None, ref |-> "none", after |-> {},
      userStamp |-> None, assistantStamp |-> None, stale |-> FALSE ]

ThreadStarts ==
    { start \in { ThreadStart(m, s, h) :
                      m \in Messages, s \in ConcSessionIds, h \in HexChoices } :
        (start.hex # None) = NotSessionId(start.session_id) }

InitConc ==
    /\ sessions = NoSessions
    /\ clock = 0
    /\ calls = <<>>
    /\ reply = None
    /\ fnInput = Idle
    /\ fnOutput = None
    /\ threads \in [Threads -> ThreadStarts]
    /\ agents = OneAgent

\* lines 58-59; `after` notes the calls that had returned when this one began
Resolve(t) ==
    /\ threads[t].pc = "resolve"
    /\ threads' = [threads EXCEPT
          ![t].pc = "test",
          ![t].sid = Some(ResolveSessionId(threads[t].session_id, threads[t].hex)),
          ![t].after = { u \in Threads : threads[u].pc = "done" }]
    /\ UNCHANGED <<sessions, clock, calls, reply, fnInput, fnOutput, agents>>

\* faulty variant: the log is taken to be missing every time
LogMissingAlways(store, sid) == TRUE

\* session_id not in self.sessions
LogMissing(store, sid) == sid \notin DOMAIN store

\* line 62
TestMembership(t) ==
    /\ threads[t].pc = "test"
    /\ threads' = [threads EXCEPT
          ![t].pc = IF LogMissing(sessions, threads[t].sid[1])
                    THEN "create" ELSE "fetch_user"]
    /\ UNCHANGED <<sessions, clock, calls, reply, fnInput, fnOutput, agents>>

\* self.sessions[session_id] = []
CreateLog(store, sid) ==
    [k \in DOMAIN store \cup {sid} |-> IF k = sid THEN <<>> ELSE store[k]]

\* line 63: the list other threads hold for this key is no longer the stored one
Create(t) ==
    /\ threads[t].pc = "create"
    /\ sessions' = CreateLog(sessions, threads[t].sid[1])
    /\ threads' = [u \in Threads |->
          IF u = t THEN [threads[t] EXCEPT !.pc = "fetch_user"]
          ELSE IF threads[u].ref = "live" /\ threads[u].sid = threads[t].sid
               THEN [threads[u] EXCEPT !.ref = "orphan"]
          ELSE threads[u]]
    /\ UNCHANGED <<clock, calls, reply, fnInput, fnOutput, agents>>

\* self.sessions[session_id], read before .append is called on it
FetchLog(t, from, to) ==
    /\ threads[t].pc = from
    /\ threads' = [threads EXCEPT ![t].pc = to, ![t].ref = "live"]
    /\ UNCHANGED <<sessions, clock, calls, reply, fnInput, fnOutput, agents>>

\* line 65
FetchUser(t) == FetchLog(t, "fetch_user", "append_user")

\* line 81
FetchAssistant(t) == FetchLog(t, "fetch_assistant", "append_assistant")

\* .append(turn) on the list the thread holds
AppendVia(t, turn) ==
    IF threads[t].ref = "live" THEN AppendTurn(sessions, threads[t].sid[1], turn)
    ELSE sessions

\* lines 65-67
AppendUser(t) ==
    /\ threads[t].pc = "append_user"
    /\ sessions' = AppendVia(t, Turn("user", threads[t].message, clock))
    /\ clock' = clock + 1
    /\ threads' = [threads EXCEPT
          ![t].pc = "fetch_assistant", ![t].ref = "none", ![t].userStamp = Some(clock),
          ![t].stale = @ \/ threads[t].ref = "orphan"]
    /\ UNCHANGED <<calls, reply, fnInput, fnOutput, agents>>

\* lines 69-87
AppendAssistant(t) ==
    /\ threads[t].pc = "append_assistant"
    /\ sessions' = AppendVia(t, Turn("assistant",
                                     Analyse(threads[t].message, None).response_message,
                                     clock))
    /\ clock' = clock + 1
    /\ threads' = [threads EXCEPT
          ![t].pc = "return", ![t].ref = "none", ![t].assistantStamp = Some(clock),
          ![t].stale = @ \/ threads[t].ref = "orphan"]
    /\ UNCHANGED <<calls, reply, fnInput, fnOutput, agents>>

\* lines 89-96
Return(t) ==
    /\ threads[t].pc = "return"
    /\ LET a == Analyse(threads[t].message, None)
       IN calls' = Append(calls,
              [ message |-> threads[t].message,
                session_id |-> threads[t].session_id,
                portfolio |-> None,
                hex |-> threads[t].hex,
                response |-> ChatResponse(a.response_message, threads[t].sid[1], clock,
                                          a.analysis_type, "medium", a.citations) ])
    /\ clock' = clock + 1
    /\ threads' = [threads EXCEPT ![t].pc = "done"]
    /\ UNCHANGED <<sessions, reply, fnInput, fnOutput, agents>>

NextConc ==
    \E t \in Threads :
        \/ Resolve(t)
        \/ TestMembership(t)
        \/ Create(t)
        \/ FetchUser(t)
        \/ AppendUser(t)
        \/ FetchAssistant(t)
        \/ AppendAssistant(t)
        \/ Return(t)

SpecConc == InitConc /\ [][NextConc]_vars

(***************************************************************************)
(* Two agents.  Calls are made on one FinancialAdvisorAgent, a second one  *)
(* is constructed (its store is empty) and calls are made on it.  For each *)
(* call the audit keeps what `calls` does not: the agent called, the       *)
(* user_id passed and the store the call found (the length of each log).   *)
(***************************************************************************)
AgentPortfolios ==
    { None, Some(Portfolio(<<Holding(AAPL), Holding(<<"m","s","f","t">>)>>)) }

AgentHexChoices == { None, Some([i \in 1..UuidHexLen |-> "0"]) }

\* agent.process_message(message, session_id, user_id, portfolio)
CallAgent ==
    /\ Len(calls) < MaxCalls
    /\ \E message \in Messages, session_id \in ConcSessionIds, user_id \in UserIds,
          portfolio \in AgentPortfolios, hex \in AgentHexChoices :
            /\ process_message(message, session_id, user_id, portfolio, hex)
            /\ agents' = [agents EXCEPT !.audit =
                  Append(@, [agent |-> agents.current, user_id |-> user_id,
                             found |-> [k \in DOMAIN sessions |-> Len(sessions[k])]])]
    /\ UNCHANGED <<reply, fnInput, fnOutput, threads>>

\* FinancialAdvisorAgent(): self.sessions = {}
NewAgent ==
    /\ agents.current = 1
    /\ Len(calls) \in 1..(MaxCalls - 1)
    /\ sessions' = NoSessions
    /\ agents' = [agents EXCEPT !.current = 2]
    /\ UNCHANGED <<clock, calls, reply, fnInput, fnOutput, threads>>

NextAgents == CallAgent \/ NewAgent

SpecAgents == Init /\ [][NextAgents]_vars

(***************************************************************************)
(* Vocabulary of the properties.                                           *)
(***************************************************************************)
\* the word occurs in the text when letter case is ignored
Mentions(text, word) ==
    \E i \in 1..Len(text) :
        /\ i + Len(word) - 1 <= Len(text)
        /\ \A j \in 1..Len(word) :
              LET c == text[i + j - 1]
              IN (IF c \in DOMAIN LowerMap THEN LowerMap[c] ELSE c) = word[j]

CallIds == 1..Len(calls)
Returned(i) == calls[i].response.session_id
ResolvedTo(s) == { i \in CallIds : Returned(i) = s }
IsAbsent(i) == calls[i].session_id = None
IsNonEmptyString(i) == calls[i].session_id # None /\ calls[i].session_id[1] # <<>>

\* the roles and contents of a log, in order
Conversation(log) == [j \in 1..Len(log) |-> <<log[j].role, log[j].content>>]

\* the conversation that the calls cs, made in this order, are to leave
Exchanges(cs) ==
    [j \in 1..(2 * Len(cs)) |->
        IF j % 2 = 1 THEN <<"user", cs[(j + 1) \div 2].message>>
        ELSE <<"assistant", cs[j \div 2].response.message>>]

CallsWith(s) == SelectSeq(calls, LAMBDA c : c.session_id = Some(s))
NoOtherCallOn(s) == \A i \in ResolvedTo(s) : calls[i].session_id = Some(s)
SuppliedStrings == { a[1] : a \in SessionIdArgs \ { None } }

\* C1: after any sequence of completed calls every session's log holds twice
\* as many turns as calls resolved to that session, half of them user turns
\* and half assistant turns, and the store holds no other session.
C1_EvenTurnCount ==
    /\ \A i \in CallIds : Returned(i) \in DOMAIN sessions
    /\ \A s \in DOMAIN sessions :
          LET n == Cardinality(ResolvedTo(s))
              log == sessions[s]
          IN /\ n >= 1
             /\ Len(log) = 2 * n
             /\ Cardinality({ j \in 1..Len(log) : log[j].role = "user" }) = n
             /\ Cardinality({ j \in 1..Len(log) : log[j].role = "assistant" }) = n

C1_Witness ==
    \E s \in DOMAIN sessions :
        /\ Len(sessions[s]) = 4
        /\ Cardinality(DOMAIN sessions) >= 2

\* C2 as claimed: for ANY supplied session identifier, the calls made with it
\* (no other call resolving to it) leave exactly their exchanges under it, in
\* call order.
C2_AnyIdentifier ==
    \A s \in SuppliedStrings :
        (NoOtherCallOn(s) /\ CallsWith(s) # <<>>) =>
            /\ s \in DOMAIN sessions
            /\ Conversation(sessions[s]) = Exchanges(CallsWith(s))

\* C2, amended: for any NON-EMPTY supplied session identifier, the n calls
\* made with it (no other call resolving to it) leave exactly 2n turns under
\* it: [user m1, assistant r1, ..., user mn, assistant rn], in call order.
C2_SessionAdditive ==
    \A s \in SuppliedStrings \ { <<>> } :
        (NoOtherCallOn(s) /\ CallsWith(s) # <<>>) =>
            /\ s \in DOMAIN sessions
            /\ Len(sessions[s]) = 2 * Len(CallsWith(s))
            /\ Conversation(sessions[s]) = Exchanges(CallsWith(s))

C2_Witness ==
    \E s \in SuppliedStrings \ { <<>> } :
        /\ NoOtherCallOn(s)
        /\ Len(CallsWith(s)) = 2
        /\ CallsWith(s)[1].message # CallsWith(s)[2].message
        /\ Len(sessions[s]) = 4

\* the two turns call i appended lie, one after the other, in the log kept
\* under s, and in no other log (a turn is known by its clock ordinal)
TurnsOfCallUnder(i, s) ==
    LET c == calls[i]
        userTurn == Turn("user", c.message, c.response.timestamp - 2)
        assistantTurn == Turn("assistant", c.response.message, c.response.timestamp - 1)
    IN /\ s \in DOMAIN sessions
       /\ \E j \in 1..(Len(sessions[s]) - 1) :
             sessions[s][j] = userTurn /\ sessions[s][j + 1] = assistantTurn
       /\ \A k \in DOMAIN sessions \ { s } : \A j \in 1..Len(sessions[k]) :
             sessions[k][j].timestamp \notin { userTurn.timestamp, assistantTurn.timestamp }

\* C3 as claimed: EVERY string given as session_id is returned verbatim and is
\* the key the call's two turns are stored under; an identifier is generated
\* only when session_id is None.
C3_AnyStringReused ==
    \A i \in CallIds :
        /\ calls[i].session_id # None =>
              /\ Returned(i) = calls[i].session_id[1]
              /\ TurnsOfCallUnder(i, calls[i].session_id[1])
        /\ calls[i].hex # None => calls[i].session_id = None

\* C3, amended: every NON-EMPTY string given as session_id is returned verbatim
\* and is the key the call's two turns are stored under; an identifier is
\* generated exactly when session_id is None or the empty string, and then the
\* call's turns are stored under the generated identifier.
C3_SuppliedIdReused ==
    \A i \in CallIds :
        /\ IsNonEmptyString(i) =>
              /\ Returned(i) = calls[i].session_id[1]
              /\ TurnsOfCallUnder(i, calls[i].session_id[1])
        /\ (calls[i].hex # None) = ~IsNonEmptyString(i)
        /\ ~IsNonEmptyString(i) =>
              /\ Returned(i) = SessionPrefix \o SubSeq(calls[i].hex[1], 1, 8)
              /\ TurnsOfCallUnder(i, Returned(i))

C3_Witness ==
    \E i, j \in CallIds :
        /\ i < j
        /\ IsNonEmptyString(i)
        /\ calls[j].session_id = calls[i].session_id
        /\ Returned(j) = calls[j].session_id[1]
        /\ Len(sessions[Returned(j)]) = 4

\* C4 as claimed: two distinct calls made without a session identifier never
\* return the same identifier, and every identifier returned is a key of the
\* session store.  (Stated granting that uuid4 never returns one UUID twice.)
C4_NeverSameIdentifier ==
    /\ \A i, j \in CallIds :
          (i # j /\ IsAbsent(i) /\ IsAbsent(j) /\ calls[i].hex # calls[j].hex)
              => Returned(i) # Returned(j)
    /\ \A i \in CallIds : Returned(i) \in DOMAIN sessions

\* C4, amended: two distinct calls made without a session identifier return
\* the same identifier exactly when the random UUIDs drawn for them agree on
\* their first eight hex digits (the identifier is "session-" followed by
\* those digits); every identifier returned is a key of the session store.
C4_SameIdentifierIffSamePrefix ==
    /\ \A i, j \in CallIds :
          (i # j /\ IsAbsent(i) /\ IsAbsent(j)) =>
              ((Returned(i) = Returned(j))
                  = (SubSeq(calls[i].hex[1], 1, 8) = SubSeq(calls[j].hex[1], 1, 8)))
    /\ \A i \in CallIds : Returned(i) \in DOMAIN sessions

C4_Witness ==
    \E i, j \in CallIds :
        /\ i # j /\ IsAbsent(i) /\ IsAbsent(j)
        /\ Returned(i) # Returned(j)
        /\ { Returned(i), Returned(j) } \subseteq DOMAIN sessions

Applied(fn) == fnInput.fn = fn /\ fnOutput # None

\* the text mentions one of the words, letter case ignored
MentionsAny(text, words) == \E w \in words : Mentions(text, w)

\* the classification the fixed precedence order prescribes
Precedence(text) ==
    IF MentionsAny(text, { <<"b","u","l","l">>, <<"b","e","a","r">>, <<"c","a","s","e">> })
        THEN "bull_bear"
    ELSE IF MentionsAny(text, { <<"e","a","r","n","i","n","g","s">>, <<"r","e","p","o","r","t">> })
        THEN "earnings"
    ELSE IF MentionsAny(text, { <<"c","o","m","p","a","r","e">>,
                                <<"c","o","m","p","a","r","i","s","o","n">>,
                                <<"v","e","r","s","u","s">>, <<"v","s">> })
        THEN "comparison"
    ELSE IF MentionsAny(text, { <<"r","i","s","k">>, <<"v","o","l","a","t","i","l","i","t","y">>,
                                <<"d","o","w","n","s","i","d","e">> })
        THEN "risk"
    ELSE "general"

\* C5: _detect_analysis_type is total and returns, for every text, the
\* category of the first rule in the order bull_bear, earnings, comparison,
\* risk whose keyword the lower-cased text contains, and general otherwise.
C5_ClassifierPrecedence ==
    Applied("_detect_analysis_type") =>
        /\ fnOutput[1] \in AnalysisTypes
        /\ fnOutput[1] = Precedence(fnInput.message)

C5_Witness ==
    /\ Applied("_detect_analysis_type")
    /\ Mentions(fnInput.message, <<"b","e","a","r">>)
    /\ ~Contains(<<"b","e","a","r">>, fnInput.message)
    /\ Mentions(fnInput.message, <<"r","i","s","k">>)
    /\ Mentions(fnInput.message, <<"v","s">>)
    /\ fnOutput[1] = "bull_bear"

\* s[i..j] is a candidate: 1 to 5 upper-case ASCII letters with no word
\* character (letter, digit, underscore) next to them on either side
IsCandidate(s, i, j) ==
    /\ 1 <= i /\ i <= j /\ j <= Len(s) /\ j - i + 1 <= 5
    /\ \A k \in i..j : s[k] \in UpperSet
    /\ (i = 1 \/ ~IsWordChar(s[i - 1]))
    /\ (j = Len(s) \/ ~IsWordChar(s[j + 1]))

\* s[i..j] is an isolated run: 1 to 5 upper-case letters with no letter and no
\* digit next to them
IsIsolatedRun(s, i, j) ==
    /\ 1 <= i /\ i <= j /\ j <= Len(s) /\ j - i + 1 <= 5
    /\ \A k \in i..j : s[k] \in UpperSet
    /\ (i = 1 \/ s[i - 1] \notin UpperSet \cup LowerSet \cup DigitSet)
    /\ (j = Len(s) \/ s[j + 1] \notin UpperSet \cup LowerSet \cup DigitSet)

CommonWords ==
    { <<"I">>, <<"A">>, <<"M","Y">>, <<"T","H","E">>, <<"F","O","R">>, <<"A","N","D">>,
      <<"O","R">> }

Spans(s) == { <<i, j>> : i \in 1..Len(s), j \in 1..Len(s) }
Survivors(s) ==
    { ij \in Spans(s) :
        IsCandidate(s, ij[1], ij[2]) /\ SubSeq(s, ij[1], ij[2]) \notin CommonWords }

\* C6: _extract_ticker returns the leftmost candidate that is not a common
\* word, and None when there is none; what it returns is 1 to 5 upper-case
\* letters of the text and no common word; a text with no isolated run, or
\* whose isolated runs are all common words, yields None.
C6_FirstSurvivingCandidate ==
    Applied("_extract_ticker") =>
        LET s == fnInput.message
            ticker == fnOutput[1]
        IN /\ (ticker = None) = (Survivors(s) = {})
           /\ ticker # None =>
                 /\ \E ij \in Survivors(s) :
                       /\ ticker[1] = SubSeq(s, ij[1], ij[2])
                       /\ \A other \in Survivors(s) : ij[1] <= other[1]
                 /\ Len(ticker[1]) \in 1..5
                 /\ \A k \in 1..Len(ticker[1]) : ticker[1][k] \in UpperSet
                 /\ Contains(ticker[1], s)
                 /\ ticker[1] \notin CommonWords
           /\ (\A ij \in Spans(s) : IsIsolatedRun(s, ij[1], ij[2])
                                       => SubSeq(s, ij[1], ij[2]) \in CommonWords)
                 => ticker = None

C6_Witness ==
    /\ Applied("_extract_ticker")
    /\ fnInput.message = <<"I">> \o Space \o MSFT \o Space
    /\ fnOutput[1] = Some(MSFT)

\* a text with something in it: at least one fragment, none of them empty
NonEmptyText(text) == Len(text) > 0 /\ \A k \in 1..Len(text) : Len(text[k]) > 0

\* the call can be made: no guard and no failure stops it
Accepts(message, session_id, user_id, portfolio) ==
    \E hex \in HexChoices :
        ENABLED (/\ process_message(message, session_id, user_id, portfolio, hex)
                 /\ UNCHANGED <<reply, fnInput, fnOutput, threads, agents>>)

\* C7: process_message has no error path: a fresh agent accepts a call
\* whatever the message, session_id, user_id and portfolio, and every call
\* made returns a response whose message is not empty; for the empty message
\* and no portfolio the category is general and the message is the generic
\* help text with no portfolio clause.
C7_TotalNonEmptyResponse ==
    /\ calls = <<>> =>
          \A message \in Messages, session_id \in SessionIdArgs,
             user_id \in UserIds, portfolio \in Portfolios :
                Accepts(message, session_id, user_id, portfolio)
    /\ \A i \in CallIds :
          /\ NonEmptyText(calls[i].response.message)
          /\ (calls[i].message = <<>> /\ calls[i].portfolio = None) =>
                /\ calls[i].response.analysis_type = "general"
                /\ calls[i].response.message = HelpHead \o HelpTail

C7_Witness ==
    \E i \in CallIds :
        /\ calls[i].message = <<>>
        /\ calls[i].portfolio = None
        /\ calls[i].session_id = Some(<<>>)
        /\ calls[i].response.message = HelpHead \o HelpTail

\* C8: the citations depend on the category alone: 3 for bull_bear, 2 for
\* earnings, 3 for risk, none for comparison and general, whatever the
\* portfolio, and every citation mentions "mock".
C8_CitationsByCategory ==
    Applied("_generate_mock_citations") =>
        LET category == fnInput.analysis_type
            citations == fnOutput[1]
        IN /\ Len(citations) =
                 (CASE category = "bull_bear" -> 3
                    [] category = "earnings" -> 2
                    [] category = "risk" -> 3
                    [] category \in {"comparison", "general"} -> 0)
           /\ \A k \in 1..Len(citations) : Mentions(citations[k], <<"m","o","c","k">>)
           /\ \A p \in Portfolios : citations = _generate_mock_citations(category, p)

C8_Witness ==
    /\ Applied("_generate_mock_citations")
    /\ fnInput.analysis_type = "earnings"
    /\ fnInput.portfolio # None
    /\ Len(fnOutput[1]) = 2

\* C9: every response process_message returns carries a disclaimer that
\* mentions "not financial advice".
C9_DisclaimerPresent ==
    /\ \A i \in CallIds :
          Mentions(calls[i].response.disclaimer,
                   <<"n","o","t"," ","f","i","n","a","n","c","i","a","l"," ","a","d","v","i","c","e">>)
    /\ (reply # None /\ reply[1].status = 200) =>
          Mentions(reply[1].body[1].disclaimer,
                   <<"n","o","t"," ","f","i","n","a","n","c","i","a","l"," ","a","d","v","i","c","e">>)

C9_Witness ==
    /\ Len(calls) >= 2
    /\ reply # None /\ reply[1].status = 200
    /\ calls[1].response.analysis_type # calls[2].response.analysis_type

\* C10: the analysis_type of every response is one of the five categories and
\* is the classifier's result on the request's message, and both the response
\* text and the citations are the ones of that category.
C10_SingleCategory ==
    \A i \in CallIds :
        LET c == calls[i]
            category == c.response.analysis_type
        IN /\ category \in {"bull_bear", "earnings", "comparison", "risk", "general"}
           /\ category = _detect_analysis_type(c.message)
           /\ c.response.message = _generate_mock_response(c.message, category, c.portfolio)
           /\ c.response.citations = _generate_mock_citations(category, c.portfolio)

C10_Witness ==
    \E i \in CallIds :
        /\ calls[i].response.analysis_type = "risk"
        /\ calls[i].portfolio # None
        /\ Len(calls[i].response.citations) = 3

\* the leftmost candidate of s that is no common word, None when there is none
LeftmostSurvivor(s) ==
    LET found == Survivors(s) IN
    IF found = {} THEN None
    ELSE LET first == CHOOSE ij \in found : \A other \in found : ij[1] <= other[1]
         IN Some(SubSeq(s, first[1], first[2]))

\* the name a headline shows: the ticker extracted, or the placeholder
HeadlineName(s) ==
    LET ticker == LeftmostSurvivor(s) IN
    IF ticker = None THEN <<"T","H","I","S"," ","S","T","O","C","K">> ELSE ticker[1]

\* _generate_mock_response has been applied to a message and the category
\* the classifier gives that message
Rendered(category) ==
    /\ Applied("_generate_mock_response")
    /\ fnInput.analysis_type = category
    /\ _detect_analysis_type(fnInput.message) = category

\* C11: for a message classified bull_bear the response is the bull-case
\* template when the message mentions "bull" (also next to "bear"), else the
\* bear-case template when it mentions "bear", else the balanced view; the
\* headline names the extracted ticker, or THIS STOCK when there is none.
C11_TemplateByRecheck ==
    Rendered("bull_bear") =>
        LET m == fnInput.message
            name == HeadlineName(m)
        IN fnOutput[1] =
              IF Mentions(m, <<"b","u","l","l">>)
                  THEN BullCaseHead \o name \o BullCaseBody
              ELSE IF Mentions(m, <<"b","e","a","r">>)
                  THEN BearCaseHead \o name \o BearCaseBody
              ELSE BalancedHead \o name \o BalancedBody

C11_Witness ==
    /\ Rendered("bull_bear")
    /\ fnInput.message = <<"b","e","a","r">> \o <<"b","u","l","l">>
    /\ fnOutput[1] =
          BullCaseHead \o <<"T","H","I","S"," ","S","T","O","C","K">> \o BullCaseBody

RECURSIVE Listed(_, _)
\* the tickers of the first k holdings, in order, separated by ", "
Listed(holdings, k) ==
    IF k = 1 THEN holdings[1].ticker
    ELSE Listed(holdings, k - 1) \o <<",", " ">> \o holdings[k].ticker

\* the portfolio clause of the help message
Clause(portfolio) ==
    IF portfolio = None \/ Len(portfolio[1].holdings) = 0 THEN <<>>
    ELSE LET n == Len(portfolio[1].holdings)
         IN HoldHead \o Listed(portfolio[1].holdings, IF n < 3 THEN n ELSE 3) \o <<".">>

\* C12: for a message classified general or comparison the response is the
\* generic help message; it holds the portfolio clause exactly when a
\* portfolio with at least one holding is supplied, and the clause lists the
\* tickers of the first min(3, n) holdings in portfolio order, comma-joined.
C12_HelpWithPortfolioClause ==
    (Rendered("general") \/ Rendered("comparison")) =>
        /\ fnOutput[1] = HelpHead \o Clause(fnInput.portfolio) \o HelpTail
        /\ (Clause(fnInput.portfolio) # <<>>)
              = (fnInput.portfolio # None /\ fnInput.portfolio[1].holdings # <<>>)

C12_Witness ==
    /\ Rendered("comparison")
    /\ fnInput.portfolio # None
    /\ Len(fnInput.portfolio[1].holdings) = 4
    /\ fnOutput[1] =
              HelpHead \o HoldHead \o AAPL \o <<",", " ">> \o MSFT \o <<",", " ">> \o GOOGL
              \o <<".">> \o HelpTail

\* log a is a prefix of log b
IsPrefix(a, b) == Len(a) <= Len(b) /\ SubSeq(b, 1, Len(a)) = a

\* C13: the session store is append-only: no step removes a session, and the
\* log a session had before a step is a prefix of the log it has after it.
C13_AppendOnly ==
    [][\A s \in DOMAIN sessions :
          /\ s \in DOMAIN sessions'
          /\ IsPrefix(sessions[s], sessions'[s])]_vars

C13_Witness ==
    \E s \in DOMAIN sessions :
        /\ Len(sessions[s]) = 6
        /\ sessions[s][1].content # sessions[s][3].content

\* the holdings whose tickers the help message displays
DisplayedHoldings(portfolio) ==
    IF portfolio = None THEN {}
    ELSE LET n == Len(portfolio[1].holdings)
         IN { portfolio[1].holdings[k] : k \in 1..(IF n < 3 THEN n ELSE 3) }

\* C14: every ticker a response text displays appears in upper case: the
\* ticker extracted from the message (bull_bear, earnings, risk) and the
\* tickers taken from the portfolio's holdings (general, comparison).
C14_TickersUpperCased ==
    \A i \in CallIds :
        LET c == calls[i]
            category == c.response.analysis_type
        IN /\ (category \in {"bull_bear", "earnings", "risk"}
                  /\ LeftmostSurvivor(c.message) # None) =>
                 Contains(upper(LeftmostSurvivor(c.message)[1]), c.response.message)
           /\ category \in {"general", "comparison"} =>
                 \A h \in DisplayedHoldings(c.portfolio) :
                     Contains(upper(h.ticker), c.response.message)

\* the body is JSON and has a message (a string)
HasMessage(body) == body.json /\ body.message # None

\* the request is answered 200 by a call of the agent
Succeeds(body) ==
    \E hex \in HexChoices :
        ENABLED (chat(body, hex) /\ reply'[1].status = 200 /\ Len(calls') = Len(calls) + 1)

\* the request is answered 422
IsRejected(body) == ENABLED (RejectRequest(body) /\ reply'[1].status = 422)

\* C15: a request without a message, or that is not JSON, is answered 422
\* and no request with a message is (looked at on the fresh service and after
\* each first request); a step that answers 422 leaves the
\* session store, the clock and the history of calls as they were (the agent
\* is not called); a request with a message, whatever its session_id and
\* user_id, is answered 200 with the response of one call of the agent.
C15_RejectedNeverInvokes ==
    /\ [](Len(calls) <= 1 =>
            \A body \in Bodies :
                /\ Succeeds(body) = HasMessage(body)
                /\ IsRejected(body) = ~HasMessage(body))
    /\ [][/\ reply'[1].status = 422 => UNCHANGED <<sessions, clock, calls>>
          /\ reply'[1].status = 200 =>
                /\ Len(calls') = Len(calls) + 1
                /\ reply'[1].body = Some(calls'[Len(calls')].response)]_vars

C15_Witness ==
    /\ reply # None /\ reply[1].status = 422
    /\ Len(calls) = 2
    /\ Cardinality(DOMAIN sessions) = 2

\* C16: when process_message has returned r for message m, r.session_id is a
\* key of the store and the last two turns of its log are the user turn
\* holding m as given and the assistant turn holding r.message.
C16_LastTwoTurns ==
    calls # <<>> =>
        LET c == calls[Len(calls)]
            sid == c.response.session_id
        IN /\ sid \in DOMAIN sessions
           /\ Len(sessions[sid]) >= 2
           /\ LET log == sessions[sid]
                  n == Len(log)
              IN /\ log[n - 1].role = "user"
                 /\ log[n - 1].content = c.message
                 /\ log[n].role = "assistant"
                 /\ log[n].content = c.response.message

C16_Witness ==
    /\ Len(calls) = 2
    /\ calls[2].session_id = None
    /\ calls[2].message = BullBearWords[1] \o Space \o AAPL
    /\ Len(sessions[calls[2].response.session_id]) = 4

\* the ticker extracted from s, or the phrase given when there is none
TickerOr(s, phrase) ==
    LET ticker == LeftmostSurvivor(s) IN
    IF ticker = None THEN phrase ELSE ticker[1]

\* C17: for a message classified earnings or risk the response is the
\* category's template naming the extracted ticker, or "your holdings"
\* (earnings) or "your portfolio" (risk) when there is none; for these
\* categories and for bull_bear the text is the same whatever the portfolio.
C17_TickerOrFallbackPhrase ==
    /\ Rendered("earnings") =>
          fnOutput[1] =
              EarningsHead
              \o TickerOr(fnInput.message, <<"y","o","u","r"," ","h","o","l","d","i","n","g","s">>)
              \o EarningsBody
    /\ Rendered("risk") =>
          fnOutput[1] =
              RiskHead
              \o TickerOr(fnInput.message,
                          <<"y","o","u","r"," ","p","o","r","t","f","o","l","i","o">>)
              \o RiskBody
    /\ (Rendered("earnings") \/ Rendered("risk") \/ Rendered("bull_bear")) =>
          \A p \in Portfolios :
              fnOutput[1]
                = _generate_mock_response(fnInput.message, fnInput.analysis_type, p)

C17_Witness ==
    /\ Rendered("risk")
    /\ fnInput.portfolio # None
    /\ fnInput.portfolio[1].holdings # <<>>
    /\ fnOutput[1] =
              RiskHead \o <<"y","o","u","r"," ","p","o","r","t","f","o","l","i","o">> \o RiskBody

\* the texts at the spans S of s, from left to right (the spans do not overlap)
InOrder(S, s) ==
    [k \in 1..Cardinality(S) |->
        LET ij == CHOOSE x \in S : Cardinality({ y \in S : y[1] < x[1] }) = k - 1
        IN SubSeq(s, ij[1], ij[2])]

\* C18 as claimed: the candidates are exactly the runs of 1 to 5 upper-case
\* letters that have no letter and no digit next to them, from left to right.
C18_CandidatesAreIsolatedRuns ==
    Applied("re.findall") =>
        LET s == fnInput.message
        IN fnOutput[1]
             = InOrder({ ij \in Spans(s) : IsIsolatedRun(s, ij[1], ij[2]) }, s)

\* C18, amended: the candidates are exactly the runs of 1 to 5 upper-case
\* letters that have no letter, no digit and no underscore next to them, from
\* left to right; a run of 6 or more upper-case letters gives no candidate.
C18_CandidatesAreWordBoundedRuns ==
    Applied("re.findall") =>
        LET s == fnInput.message
        IN /\ fnOutput[1]
                = InOrder({ ij \in Spans(s) : IsCandidate(s, ij[1], ij[2]) }, s)
           /\ \A k \in 1..Len(fnOutput[1]) :
                 /\ Len(fnOutput[1][k]) \in 1..5
                 /\ \A j \in 1..Len(fnOutput[1][k]) : fnOutput[1][k][j] \in UpperSet

C18_Witness ==
    /\ Applied("re.findall")
    /\ fnInput.message = <<"_">> \o AAPL \o Space \o MSFT
    /\ fnOutput[1] = <<MSFT>>

\* every concurrent call has returned
AllReturned == \A t \in Threads : threads[t].pc = "done"

\* the concurrent calls were all for the session s
AllOn(s) == \A t \in Threads : threads[t].sid = Some(s)

\* the concurrent calls were all made with s as session_id
AllGiven(s) == \A t \in Threads : threads[t].session_id = Some(s)

\* the calls ran one after the other: one began after the other had returned
RanInTurn == \E t, u \in Threads : t # u /\ t \in threads[u].after

\* the calls in the opposite order
Reversed(cs) == [k \in 1..Len(cs) |-> cs[Len(cs) + 1 - k]]

\* C19: concurrent calls on one session identifier race on its log.  When
\* both calls have returned, the log holds only turns of the two calls and at
\* most four of them; it is sure to be the two exchanges in call order only
\* when the calls ran one after the other.  (The witness is the race: a log
\* that neither sequential order gives, with two user turns next to each
\* other.)
C19_SequentialOnlyInTurn ==
    AllReturned =>
        \A s \in DOMAIN sessions :
            AllOn(s) =>
                /\ Len(sessions[s]) <= 2 * Len(calls)
                /\ \A j \in 1..Len(sessions[s]) :
                      \E i \in CallIds :
                          \/ Conversation(sessions[s])[j] = <<"user", calls[i].message>>
                          \/ Conversation(sessions[s])[j]
                                = <<"assistant", calls[i].response.message>>
                /\ RanInTurn => Conversation(sessions[s]) = Exchanges(calls)

C19_Witness ==
    /\ AllReturned
    /\ \E s \in DOMAIN sessions :
          /\ AllGiven(s)
          /\ calls[1].message # calls[2].message
          /\ Len(sessions[s]) = 4
          /\ Conversation(sessions[s]) \notin { Exchanges(calls), Exchanges(Reversed(calls)) }
          /\ sessions[s][1].role = "user" /\ sessions[s][2].role = "user"

\* C20: no turn is lost under concurrency: when two calls for the same unseen
\* session identifier have both returned (each append having gone to the list
\* that is in the store), the log holds both user turns and both assistant
\* turns and its length is even.
C20_NoTurnLost ==
    (AllReturned /\ \A t \in Threads : ~threads[t].stale) =>
        \A s \in DOMAIN sessions :
            AllGiven(s) =>
                LET log == sessions[s]
                    a(t) == Analyse(threads[t].message, None)
                IN /\ \A t \in Threads :
                         /\ \E j \in 1..Len(log) :
                               log[j] = Turn("user", threads[t].message,
                                             threads[t].userStamp[1])
                         /\ \E j \in 1..Len(log) :
                               log[j] = Turn("assistant", a(t).response_message,
                                             threads[t].assistantStamp[1])
                   /\ Len(log) = 4
                   /\ Len(log) % 2 = 0

\* C21: a call that resolves to session identifier s changes only the log
\* stored under s: every other log of the store is the same before and after
\* the call, no key other than s is added and none is removed; a request that
\* is rejected changes no log.
C21_SessionIsolation ==
    [][IF Len(calls') = Len(calls) + 1
       THEN LET s == calls'[Len(calls')].response.session_id
            IN /\ DOMAIN sessions' = DOMAIN sessions \cup {s}
               /\ \A k \in DOMAIN sessions \ {s} : sessions'[k] = sessions[k]
               /\ sessions'[s] # (IF s \in DOMAIN sessions THEN sessions[s] ELSE <<>>)
       ELSE sessions' = sessions]_vars

\* the last call added a session to a store that held the finished exchanges
\* of two others
C21_Witness ==
    /\ Len(calls) = 3
    /\ Cardinality(DOMAIN sessions) = 3
    /\ Len(sessions[Returned(3)]) = 2
    /\ \A k \in DOMAIN sessions : Len(sessions[k]) = 2

\* what a response says: everything but its session_id and timestamp
Content(response) ==
    [ message |-> response.message,
      analysis_type |-> response.analysis_type,
      confidence |-> response.confidence,
      citations |-> response.citations,
      disclaimer |-> response.disclaimer ]

\* C22: two calls given the same message and the same portfolio return the
\* same message text, analysis_type, confidence and citations, whichever
\* agent they are made on, whatever its session store holds, and whatever
\* session_id and user_id they are given.
C22_ContentIgnoresConversation ==
    \A i, j \in CallIds :
        (calls[i].message = calls[j].message /\ calls[i].portfolio = calls[j].portfolio)
            => Content(calls[i].response) = Content(calls[j].response)

\* two calls with one message and one portfolio, made on different agents with
\* different stores, given different session_id and user_id, and answered
\* alike under different session identifiers
C22_Witness ==
    \E i, j \in CallIds :
        /\ agents.audit[i].agent # agents.audit[j].agent
        /\ agents.audit[i].found # agents.audit[j].found
        /\ agents.audit[i].user_id # agents.audit[j].user_id
        /\ calls[i].session_id # calls[j].session_id
        /\ Returned(i) # Returned(j)
        /\ calls[i].message = BullBearWords[1] \o Space \o AAPL
        /\ calls[i].message = calls[j].message
        /\ calls[i].portfolio # None
        /\ calls[i].portfolio = calls[j].portfolio
        /\ Content(calls[i].response) = Content(calls[j].response)
        /\ calls[i].response.analysis_type = "bull_bear"

\* the call just completed, and the earlier calls that resolved to its identifier
LastCall == Len(calls)
EarlierOnSame == { j \in 1..(LastCall - 1) : Returned(j) = Returned(LastCall) }

\* C23 as claimed: after a call made without a session identifier the log
\* under the returned identifier holds exactly 2 turns.  (Stated granting that
\* uuid4 never returns one UUID twice.)
C23_AlwaysFresh ==
    (/\ LastCall >= 1
     /\ IsAbsent(LastCall)
     /\ \A j \in 1..(LastCall - 1) : calls[j].hex # calls[LastCall].hex)
        => Len(sessions[Returned(LastCall)]) = 2

\* C23, amended: a call made without a session identifier is stored under
\* "session-" followed by the first eight hex digits of a fresh UUID, and that
\* identifier is not looked up before use.  The call starts a fresh
\* conversation (its log holds exactly 2 turns) exactly when no earlier call
\* resolved to that identifier; when one did (it supplied that very string, or
\* its own UUID began with the same eight digits) the call's two turns are
\* appended to the existing log, which then holds 2 turns per such call.
C23_FreshUnlessIdentifierHeld ==
    (LastCall >= 1 /\ IsAbsent(LastCall)) =>
        LET c == calls[LastCall]
            s == Returned(LastCall)
            log == sessions[s]
        IN /\ s = SessionPrefix \o SubSeq(c.hex[1], 1, 8)
           /\ Len(log) = 2 * (Cardinality(EarlierOnSame) + 1)
           /\ (Len(log) = 2) = (EarlierOnSame = {})
           /\ <<log[Len(log) - 1].role, log[Len(log) - 1].content>> = <<"user", c.message>>
           /\ <<log[Len(log)].role, log[Len(log)].content>>
                 = <<"assistant", c.response.message>>
           /\ \A j \in EarlierOnSame :
                 \/ calls[j].session_id = Some(s)
                 \/ /\ calls[j].hex # None
                    /\ SubSeq(calls[j].hex[1], 1, 8) = SubSeq(c.hex[1], 1, 8)

\* a call without a session identifier started a fresh conversation in a store
\* that already held a generated and a caller-supplied session
C23_Witness ==
    /\ LastCall = 3
    /\ IsAbsent(1) /\ IsNonEmptyString(2) /\ IsAbsent(3)
    /\ Cardinality(DOMAIN sessions) = 3
    /\ Len(sessions[Returned(3)]) = 2

=============================================================================
